---- MODULE Spec2Model ----
(***************************************************************************)
(* Model of scripts/compress_og_banner.py: main() and compress_image().    *)
(* The filesystem is the pair of files at input_path and backup_path; the  *)
(* image codec is an environment that picks the byte size of every encode. *)
(* Every call that can raise (open, stat, rename, save, resize, unlink)    *)
(* has a raising outcome.  The script may be run again on what it left.    *)
(***************************************************************************)
EXTENDS Integers, Sequences, FiniteSets, TLC

\* ---------------------------------------------------------------- bounds
MaxRuns == 2
MaxSide == 6

\* ------------------------------------------------------ program constants
WIDTH == 1200
HEIGHT == 630
max_size_kb == 300
BytesPerKB == 1024
FinalQuality == 85

Ladder_skip == <<95, 75, 65, 55, 45, 45>>
Ladder == <<95, 85, 75, 65, 55, 45>>

\* ------------------------------------------------------------- data model
Modes == {"RGB", "RGBA", "LA"}

NoFile == [fmt |-> "none", size |-> 0, mode |-> "none", w |-> 0, h |-> 0,
           q |-> 0, pngOpt |-> FALSE]
\* What a save that raised after opening its target leaves there.
PartialFile == [fmt |-> "partial", size |-> 0, mode |-> "none", w |-> 0, h |-> 0,
                q |-> 0, pngOpt |-> FALSE]
NoImg == [mode |-> "none", w |-> 0, h |-> 0, pngSize |-> 0]
NoKB == [num |-> -1, den |-> 1]

\* Byte sizes an encode may produce: just under, exactly at, just over budget.
SizeChoices == {max_size_kb * BytesPerKB - 1, max_size_kb * BytesPerKB,
                max_size_kb * BytesPerKB + 1}

InputDims == {<<WIDTH, HEIGHT>>} \cup {<<n, MaxSide + 1 - n>> : n \in 1..MaxSide}

\* The banner as some other program wrote it: over or under the budget.
InputSizes == {max_size_kb * BytesPerKB - 1, max_size_kb * BytesPerKB + 1}

InputFiles == {[fmt |-> "PNG", size |-> s, mode |-> m, w |-> d[1], h |-> d[2],
                q |-> 0, pngOpt |-> FALSE] :
               s \in InputSizes, m \in Modes, d \in InputDims}

\* ------------------------------------------------------- pure operations
Exists(f) == f # NoFile

InputMissing_never(f) == FALSE
\* main: `if not banner_path.exists()`
InputMissing(f) == ~Exists(f)

\* st_size / 1024: a float division by a power of two, exact; kept as a ratio.
KB(bytes) == [num |-> bytes, den |-> BytesPerKB]

UnderBudget_le(kb, max) == kb.num <= max * kb.den
UnderBudget_bytes(kb, max) == kb.num < max
\* `png_size < max_size_kb`, `jpeg_size < max_size_kb`
UnderBudget(kb, max) == kb.num < max * kb.den

\* Image.open: decodes a PNG or JPEG; the image remembers the size its own
\* optimized-PNG encoding has when the file is exactly such an encoding.
Decodable(f) == f.fmt \in {"PNG", "JPEG"}
Decode(f) == [mode |-> f.mode, w |-> f.w, h |-> f.h,
              pngSize |-> IF f.fmt = "PNG" /\ f.pngOpt THEN f.size ELSE 0]

\* `if img.mode == 'RGBA'`: paste onto a white RGB image.
Flatten(i) == IF i.mode = "RGBA"
              THEN [i EXCEPT !.mode = "RGB", !.pngSize = 0]
              ELSE i

\* The JPEG writer accepts only modes without alpha.
JpegWritable(mode) == mode \in {"RGB", "L"}

\* The PNG encoder is deterministic: re-encoding pixels decoded from its own
\* output, with the same parameters, gives the same bytes.
PngSizes(i) == IF i.pngSize # 0 THEN {i.pngSize} ELSE SizeChoices

PngFile(i, s) == [fmt |-> "PNG", size |-> s, mode |-> i.mode, w |-> i.w, h |-> i.h,
                  q |-> 0, pngOpt |-> TRUE]
JpegFile(i, quality, s) == [fmt |-> "JPEG", size |-> s, mode |-> i.mode, w |-> i.w,
                            h |-> i.h, q |-> quality, pngOpt |-> FALSE]

\* `scale = 0.8`: the double 7205759403792794 * 2^-53, its mantissa shifted
\* left by 12 bits and cut into little-endian limbs of 13 bits.
Limb == 2^13
scale == <<0, 3277, 1638, 4915, 6553>>

RECURSIVE MulLimbs(_, _, _)
MulLimbs(ls, n, c) == IF ls = <<>> THEN <<c>>
                      ELSE LET p == Head(ls) * n + c
                           IN <<p % Limb>> \o MulLimbs(Tail(ls), n, p \div Limb)

RECURSIVE BitLen(_)
BitLen(n) == IF n = 0 THEN 0 ELSE 1 + BitLen(n \div 2)

ScaleDim_ceil(n) == (4 * n + 4) \div 5
\* int(n * scale): the exact product n * 0.8(double) is p / 2^65; the float
\* product is p rounded to 53 significant bits (ties to even); int truncates.
ScaleDim(n) == LET p == MulLimbs(scale, n, 0)
                   whole == p[6]
                   low == p[2] * Limb + p[1]
                   roundsUp == /\ p[5] = Limb - 1 /\ p[4] = Limb - 1 /\ p[3] = Limb - 1
                               /\ Limb * Limb - low <= 2^(11 + BitLen(whole))
               IN IF roundsUp THEN whole + 1 ELSE whole

\* img.resize((new_width, new_height), LANCZOS)
Resize(i) == [mode |-> i.mode, w |-> ScaleDim(i.w), h |-> ScaleDim(i.h), pngSize |-> 0]

RenameToBackup_lost(o, b) == [input |-> NoFile, backup |-> NoFile]
\* input_path.rename(backup_path): a move that replaces what is at backup_path.
RenameToBackup(o, b) == [input |-> NoFile, backup |-> o]

Unlink_keep(f) == f
\* backup_path.unlink()
Unlink(f) == NoFile

MainStatus_strict(size) == IF UnderBudget(size, max_size_kb) THEN 0 ELSE 1
\* main: `return 0` after compress_image returned (output_path, final_size).
MainStatus(size) == 0

\* ------------------------------------------------------------------ state
VARIABLES
    pc,           \* position in main / compress_image
    input_file,   \* the file at input_path (public/og-banner.png)
    backup_file,  \* the file at backup_path (public/og-banner.backup.png)
    img,          \* local `img`
    img_resized,  \* local `img_resized`
    png_size,     \* local `png_size`
    jpeg_size,    \* local `jpeg_size`
    final_size,   \* local `final_size`
    qi,           \* index of the loop variable `quality` in the ladder
    returned,     \* the size compress_image returned, NoKB before
    exit_status,  \* main's return value, -1 before
    run,          \* how many times the script has been started
    hist          \* per-run history: what this run has done so far

vars == <<pc, input_file, backup_file, img, img_resized, png_size, jpeg_size,
          final_size, qi, returned, exit_status, run, hist>>

locals == <<img, img_resized, png_size, jpeg_size, final_size, qi>>

NoHist == [input0 |-> NoFile, backup0 |-> NoFile, called |-> FALSE, renames |-> 0,
           unlinks |-> 0, stage |-> "none", raisedAt |-> "none", encodes |-> <<>>,
           reloaded |-> NoImg, prev |-> [status |-> -1, stage |-> "none"]]

Init ==
    /\ pc = "main"
    /\ input_file \in {NoFile} \cup InputFiles
    /\ backup_file = NoFile
    /\ img = NoImg /\ img_resized = NoImg
    /\ png_size = NoKB /\ jpeg_size = NoKB /\ final_size = NoKB
    /\ qi = 0
    /\ returned = NoKB
    /\ exit_status = -1
    /\ run = 1
    /\ hist = [NoHist EXCEPT !.input0 = input_file, !.backup0 = backup_file]

\* What the history keeps of an encode: its parameters and the image it took.
Enc(f, kind) == [kind |-> kind, fmt |-> f.fmt, q |-> f.q, mode |-> f.mode,
                 w |-> f.w, h |-> f.h]

\* ----------------------------------------------------------------- main
\* main: the exists() check; a missing banner returns 1 at once.
MainMissing ==
    /\ pc = "main"
    /\ InputMissing(input_file)
    /\ exit_status' = 1
    /\ pc' = "exited"
    /\ UNCHANGED <<input_file, backup_file, locals, returned, run, hist>>

\* main: enters the try block and calls compress_image(banner_path, 300).
MainCall ==
    /\ pc = "main"
    /\ ~InputMissing(input_file)
    /\ pc' = "open"
    /\ hist' = [hist EXCEPT !.called = TRUE]
    /\ UNCHANGED <<input_file, backup_file, locals, returned, exit_status, run>>

\* main: compress_image returned; print the results and return 0.
MainReturn ==
    /\ pc = "returned"
    /\ exit_status' = MainStatus(returned)
    /\ pc' = "exited"
    /\ UNCHANGED <<input_file, backup_file, locals, returned, run, hist>>

\* main: `except Exception`: print the trace and return 1.
MainExcept ==
    /\ pc = "except"
    /\ exit_status' = 1
    /\ pc' = "exited"
    /\ UNCHANGED <<input_file, backup_file, locals, returned, run, hist>>

\* The user starts the script again on whatever the last run left on disk.
Rerun ==
    /\ pc = "exited"
    /\ run < MaxRuns
    /\ run' = run + 1
    /\ pc' = "main"
    /\ img' = NoImg /\ img_resized' = NoImg
    /\ png_size' = NoKB /\ jpeg_size' = NoKB /\ final_size' = NoKB
    /\ qi' = 0
    /\ returned' = NoKB
    /\ exit_status' = -1
    /\ hist' = [NoHist EXCEPT !.input0 = input_file, !.backup0 = backup_file,
                              !.prev = [status |-> exit_status, stage |-> hist.stage]]
    /\ UNCHANGED <<input_file, backup_file>>

\* -------------------------------------------------------- compress_image
\* A call that raises without touching the filesystem.
Raise(at) ==
    /\ pc' = "except"
    /\ hist' = [hist EXCEPT !.raisedAt = at]

\* Image.open(input_path) and input_path.stat()
Open ==
    /\ pc = "open"
    /\ Decodable(input_file)
    /\ img' = Decode(input_file)
    /\ pc' = "flatten"
    /\ UNCHANGED <<input_file, backup_file, img_resized, png_size, jpeg_size,
                   final_size, qi, returned, exit_status, run, hist>>

OpenRaises ==
    /\ pc = "open"
    /\ Raise("open")
    /\ UNCHANGED <<input_file, backup_file, locals, returned, exit_status, run>>

\* Convert RGBA to RGB if needed
FlattenStep ==
    /\ pc = "flatten"
    /\ img' = Flatten(img)
    /\ pc' = "rename"
    /\ UNCHANGED <<input_file, backup_file, img_resized, png_size, jpeg_size,
                   final_size, qi, returned, exit_status, run, hist>>

\* Create backup
Rename ==
    /\ pc = "rename"
    /\ LET fs == RenameToBackup(input_file, backup_file)
       IN /\ input_file' = fs.input
          /\ backup_file' = fs.backup
    /\ hist' = [hist EXCEPT !.renames = @ + 1]
    /\ pc' = "save_png"
    /\ UNCHANGED <<locals, returned, exit_status, run>>

RenameRaises ==
    /\ pc = "rename"
    /\ Raise("rename")
    /\ UNCHANGED <<input_file, backup_file, locals, returned, exit_status, run>>

\* img.save(input_path, format='PNG', optimize=True, compress_level=9)
SavePng ==
    /\ pc = "save_png"
    /\ \E s \in PngSizes(img) :
         /\ input_file' = PngFile(img, s)
         /\ hist' = [hist EXCEPT !.encodes = Append(@, Enc(PngFile(img, s), "lossless"))]
    /\ pc' = "stat_png"
    /\ UNCHANGED <<backup_file, locals, returned, exit_status, run>>

\* A save that raises: the library removes a target the save itself created;
\* a target that was there before is left untouched (the save raised before
\* opening it) or truncated.
SaveRaises ==
    /\ pc \in {"save_png", "ladder_save", "final_save"}
    /\ input_file' \in (IF input_file = NoFile THEN {NoFile} ELSE {input_file, PartialFile})
    /\ Raise(pc)
    /\ UNCHANGED <<backup_file, locals, returned, exit_status, run>>

\* png_size = input_path.stat().st_size / 1024
StatPng ==
    /\ pc = "stat_png"
    /\ png_size' = KB(input_file.size)
    /\ pc' = "check_png"
    /\ UNCHANGED <<input_file, backup_file, img, img_resized, jpeg_size, final_size,
                   qi, returned, exit_status, run, hist>>

StatRaises ==
    /\ pc \in {"stat_png", "ladder_stat", "final_stat"}
    /\ Raise(pc)
    /\ UNCHANGED <<input_file, backup_file, locals, returned, exit_status, run>>

\* The accepting branch of a stage: backup_path.unlink() and return.
Accept(stage, size) ==
    /\ backup_file' = Unlink(backup_file)
    /\ hist' = [hist EXCEPT !.unlinks = @ + 1, !.stage = stage]
    /\ returned' = size
    /\ pc' = "returned"
    /\ UNCHANGED <<input_file, locals, exit_status, run>>

\* backup_path.unlink() raises: the backup stays.
AcceptRaises(at) ==
    /\ Raise(at)
    /\ UNCHANGED <<input_file, backup_file, locals, returned, exit_status, run>>

\* if png_size < max_size_kb: unlink the backup, return (input_path, png_size)
CheckPng ==
    /\ pc = "check_png"
    /\ IF UnderBudget(png_size, max_size_kb)
       THEN \/ Accept("lossless", png_size)
            \/ AcceptRaises("unlink_png")
       ELSE /\ qi' = 1
            /\ pc' = "ladder_save"
            /\ UNCHANGED <<input_file, backup_file, img, img_resized, png_size,
                           jpeg_size, final_size, returned, exit_status, run, hist>>

\* img.save(input_path, format='JPEG', quality=quality, optimize=True)
LadderSave ==
    /\ pc = "ladder_save"
    /\ JpegWritable(img.mode)
    /\ \E s \in SizeChoices :
         /\ input_file' = JpegFile(img, Ladder[qi], s)
         /\ hist' = [hist EXCEPT !.encodes = Append(@, Enc(JpegFile(img, Ladder[qi], s), "ladder"))]
    /\ pc' = "ladder_stat"
    /\ UNCHANGED <<backup_file, locals, returned, exit_status, run>>

\* jpeg_size = input_path.stat().st_size / 1024
LadderStat ==
    /\ pc = "ladder_stat"
    /\ jpeg_size' = KB(input_file.size)
    /\ pc' = "ladder_check"
    /\ UNCHANGED <<input_file, backup_file, img, img_resized, png_size, final_size,
                   qi, returned, exit_status, run, hist>>

\* if jpeg_size < max_size_kb: unlink, return; else the next quality, and
\* after the last one fall out of the loop.
LadderCheck ==
    /\ pc = "ladder_check"
    /\ IF UnderBudget(jpeg_size, max_size_kb)
       THEN \/ Accept("ladder", jpeg_size)
            \/ AcceptRaises("unlink_ladder")
       ELSE /\ IF qi < Len(Ladder)
               THEN qi' = qi + 1 /\ pc' = "ladder_save"
               ELSE qi' = qi /\ pc' = "reload"
            /\ UNCHANGED <<input_file, backup_file, img, img_resized, png_size,
                           jpeg_size, final_size, returned, exit_status, run, hist>>

\* img = Image.open(backup_path), flattened again if RGBA
Reload ==
    /\ pc = "reload"
    /\ Decodable(backup_file)
    /\ img' = Flatten(Decode(backup_file))
    /\ hist' = [hist EXCEPT !.reloaded = Decode(backup_file)]
    /\ pc' = "resize"
    /\ UNCHANGED <<input_file, backup_file, img_resized, png_size, jpeg_size,
                   final_size, qi, returned, exit_status, run>>

ReloadRaises ==
    /\ pc = "reload"
    /\ Raise("reload")
    /\ UNCHANGED <<input_file, backup_file, locals, returned, exit_status, run>>

\* new_width, new_height = int(w * scale), int(h * scale); img.resize(...)
ResizeStep ==
    /\ pc = "resize"
    /\ Resize(img).w > 0 /\ Resize(img).h > 0
    /\ img_resized' = Resize(img)
    /\ pc' = "final_save"
    /\ UNCHANGED <<input_file, backup_file, img, png_size, jpeg_size, final_size,
                   qi, returned, exit_status, run, hist>>

\* resize raises (always when a side is scaled to 0)
ResizeRaises ==
    /\ pc = "resize"
    /\ Raise("resize")
    /\ UNCHANGED <<input_file, backup_file, locals, returned, exit_status, run>>

\* img_resized.save(input_path, format='JPEG', quality=85, optimize=True)
FinalSave ==
    /\ pc = "final_save"
    /\ JpegWritable(img_resized.mode)
    /\ \E s \in SizeChoices :
         /\ input_file' = JpegFile(img_resized, FinalQuality, s)
         /\ hist' = [hist EXCEPT !.encodes =
                        Append(@, Enc(JpegFile(img_resized, FinalQuality, s), "final"))]
    /\ pc' = "final_stat"
    /\ UNCHANGED <<backup_file, locals, returned, exit_status, run>>

\* final_size = input_path.stat().st_size / 1024
FinalStat ==
    /\ pc = "final_stat"
    /\ final_size' = KB(input_file.size)
    /\ pc' = "final_accept"
    /\ UNCHANGED <<input_file, backup_file, img, img_resized, png_size, jpeg_size,
                   qi, returned, exit_status, run, hist>>

\* backup_path.unlink(); return input_path, final_size
FinalAccept ==
    /\ pc = "final_accept"
    /\ \/ Accept("downscale", final_size)
       \/ AcceptRaises("unlink_final")

Next ==
    \/ MainMissing \/ MainCall \/ MainReturn \/ MainExcept \/ Rerun
    \/ Open \/ OpenRaises \/ FlattenStep \/ Rename \/ RenameRaises
    \/ SavePng \/ SaveRaises \/ StatPng \/ StatRaises \/ CheckPng
    \/ LadderSave \/ LadderStat \/ LadderCheck
    \/ Reload \/ ReloadRaises \/ ResizeStep \/ ResizeRaises
    \/ FinalSave \/ FinalStat \/ FinalAccept

Spec == Init /\ [][Next]_vars

\* --------------------------------------------------------------- properties
\* The encodes of one stage, in the order this run performed them.
EncodesOf(kind) == SelectSeq(hist.encodes, LAMBDA e : e.kind = kind)
RaisedAfterRename == hist.raisedAt # "none" /\ hist.renames = 1

\* C1: the backup is created once, by renaming the input file; it is present
\* (and is the run's input) from the rename until a stage accepts; it is
\* deleted once and only by an accepting stage; after a normal return it is
\* absent and a file is at the input path; after an exception raised past the
\* rename it is still there.
BackupLifecycle ==
    /\ hist.renames <= 1 /\ hist.unlinks <= hist.renames
    /\ (hist.renames = 1 /\ hist.stage = "none") =>
           (backup_file # NoFile /\ backup_file = hist.input0)
    /\ (hist.unlinks = 1) <=> (hist.stage \in {"lossless", "ladder", "downscale"})
    /\ (hist.stage # "none") => (backup_file = NoFile /\ hist.renames = 1)
    /\ (pc = "returned" \/ exit_status = 0) =>
           (backup_file = NoFile /\ input_file.fmt \in {"PNG", "JPEG"})
    /\ RaisedAfterRename => backup_file # NoFile

\* C1 witness: a run that renamed, accepted at a ladder level, and returned.
BackupLifecycleWitness ==
    /\ pc = "exited" /\ exit_status = 0
    /\ hist.renames = 1 /\ hist.unlinks = 1 /\ hist.stage = "ladder"
    /\ backup_file = NoFile

\* C2: the ladder encodes 95, 85, 75, 65, 55, 45 in that order, none skipped;
\* a level is encoded only while the attempt before it (still on disk) is not
\* under budget; the level accepted is the last one encoded, its file is
\* strictly under budget*1024 bytes and is what is returned; the downscale is
\* reached only after all six.
LadderOrder ==
    LET tried == EncodesOf("ladder")
        levels == <<95, 85, 75, 65, 55, 45>>
    IN /\ Len(tried) <= 6
       /\ \A i \in 1..Len(tried) : tried[i].q = levels[i] /\ tried[i].fmt = "JPEG"
       /\ (pc = "ladder_save") => ~(input_file.size < 300 * 1024)
       /\ (pc = "ladder_save") => qi = Len(tried) + 1
       /\ (hist.stage = "ladder") =>
              /\ input_file.fmt = "JPEG"
              /\ input_file.q = levels[Len(tried)]
              /\ input_file.size < 300 * 1024
              /\ returned = [num |-> input_file.size, den |-> 1024]
       /\ (pc = "reload" \/ hist.reloaded # NoImg) => Len(tried) = 6

\* C2 witness: 95 and 85 were over budget, 75 was accepted.
LadderOrderWitness ==
    /\ pc = "returned" /\ hist.stage = "ladder"
    /\ input_file.q = 75 /\ Len(EncodesOf("ladder")) = 3

\* C3: once the lossless encode has measured under budget, the run encodes
\* nothing else and resizes nothing, and when it returns it has accepted at
\* the lossless stage, the backup is gone and the PNG left at the input path
\* is strictly smaller than budget*1024 bytes.
LosslessTerminates ==
    (png_size # NoKB /\ png_size.num < 300 * 1024) =>
        /\ Len(hist.encodes) = 1 /\ hist.encodes[1].kind = "lossless"
        /\ img_resized = NoImg /\ qi = 0
        /\ pc \in {"check_png", "returned", "except", "exited"}
        /\ (pc \in {"returned", "exited"} /\ hist.raisedAt = "none") =>
               /\ hist.stage = "lossless"
               /\ backup_file = NoFile
               /\ input_file.fmt = "PNG" /\ input_file.size < 300 * 1024

\* C3 witness: an RGBA input accepted at the lossless stage.
LosslessTerminatesWitness ==
    /\ pc = "returned" /\ hist.stage = "lossless"
    /\ hist.input0.mode = "RGBA" /\ input_file.size = 300 * 1024 - 1

\* C4: the downscale re-loads the run's untouched input from the backup,
\* resizes it to floor(0.8 w) x floor(0.8 h), encodes exactly once, at
\* quality 85 and as the run's last encode, and accepts whatever the size.
DownscaleOnce ==
    LET finals == EncodesOf("final")
        w08 == (4 * hist.input0.w) \div 5
        h08 == (4 * hist.input0.h) \div 5
    IN /\ (hist.reloaded # NoImg) =>
              /\ hist.reloaded.w = hist.input0.w /\ hist.reloaded.h = hist.input0.h
              /\ hist.reloaded.mode = hist.input0.mode
              /\ Len(EncodesOf("ladder")) = 6
       /\ (img_resized # NoImg) => (img_resized.w = w08 /\ img_resized.h = h08)
       /\ Len(finals) <= 1
       /\ (Len(finals) = 1) =>
              /\ finals[1].q = 85 /\ finals[1].fmt = "JPEG"
              /\ finals[1].w = w08 /\ finals[1].h = h08
              /\ hist.encodes[Len(hist.encodes)].kind = "final"
              /\ Len(hist.encodes) = 8
              /\ (pc \notin {"final_stat", "final_accept"} /\ hist.raisedAt = "none")
                     => hist.stage = "downscale"
       /\ (hist.stage = "downscale") =>
              /\ Len(finals) = 1 /\ backup_file = NoFile
              /\ input_file.q = 85 /\ input_file.w = w08 /\ input_file.h = h08

\* C4 witness: the 1200x630 banner, downscaled to 960x504, accepted over budget.
DownscaleOnceWitness ==
    /\ pc = "returned" /\ hist.stage = "downscale"
    /\ hist.input0.w = 1200 /\ hist.input0.h = 630
    /\ input_file.w = 960 /\ input_file.h = 504
    /\ ~(final_size.num < 300 * 1024)

\* C5 (as claimed): a run whose input is the under-budget output of a run
\* that returned normally performs only the lossless encode and no resize.
SecondRunLossless ==
    (run >= 2 /\ hist.prev.status = 0 /\ hist.input0.size < 300 * 1024) =>
        /\ \A i \in 1..Len(hist.encodes) : hist.encodes[i].kind = "lossless"
        /\ img_resized = NoImg

\* C6 (as claimed): after an exception at an encode, a size measurement, the
\* re-load or the resize, no file is at the input path and the backup is.
FailureSteps == {"save_png", "stat_png", "ladder_save", "ladder_stat", "reload",
                 "resize", "final_save", "final_stat"}
FailureLeavesOnlyBackup ==
    (hist.raisedAt \in FailureSteps /\ hist.renames = 1) =>
        (input_file = NoFile /\ backup_file # NoFile)

\* C6 (amended): after such an exception the backup is present and is the
\* run's input; the input path is empty only if the lossless encode itself
\* failed, and holds a re-encoded or truncated file after any later failure.
FailureKeepsBackup ==
    (hist.raisedAt \in FailureSteps /\ hist.renames = 1) =>
        /\ backup_file # NoFile /\ backup_file = hist.input0
        /\ (hist.raisedAt # "save_png") => input_file # NoFile

\* C6 witness: a ladder encode raised; both files are on disk.
FailureKeepsBackupWitness ==
    /\ pc = "except" /\ hist.raisedAt = "ladder_save"
    /\ input_file # NoFile /\ backup_file # NoFile

\* C7: a size of exactly budget*1024 bytes fails the test: the lossless stage
\* does not accept it and the ladder starts; a ladder level does not accept it
\* and the run moves to the next level, or past the last one to the downscale.
\* (While the next level's file awaits its measurement, jpeg_size still holds
\* the tie of the level before.)
TieFails ==
    LET tried == EncodesOf("ladder")
        nextEncoded == pc = "ladder_stat" \/ hist.raisedAt = "ladder_stat"
    IN /\ (png_size.num = 300 * 1024 /\ png_size.den = 1024 /\ pc # "check_png") =>
              (hist.stage # "lossless" /\ qi >= 1)
       /\ (jpeg_size.num = 300 * 1024 /\ jpeg_size.den = 1024 /\ pc # "ladder_check") =>
              /\ hist.stage # "ladder"
              /\ IF nextEncoded
                 THEN qi = Len(tried) /\ qi >= 2
                 ELSE \/ qi = Len(tried) + 1
                      \/ Len(tried) = 6 /\ qi = 6 /\ pc # "ladder_save"

\* C7 witness: a tie at the lossless stage and a tie at quality 95, the run
\* now about to encode quality 85.
TieFailsWitness ==
    /\ png_size.num = 300 * 1024 /\ jpeg_size.num = 300 * 1024
    /\ pc = "ladder_save" /\ qi = 2

\* C8: with no file at the input path main returns 1 without calling
\* compress_image: nothing is renamed, encoded or deleted, and both paths are
\* as the run found them.
MissingInput ==
    (hist.input0 = NoFile) =>
        /\ pc \in {"main", "exited"}
        /\ ~hist.called
        /\ hist.renames = 0 /\ hist.unlinks = 0 /\ hist.encodes = <<>>
        /\ input_file = NoFile /\ backup_file = hist.backup0
        /\ (pc = "exited") => exit_status = 1

\* C8 witness: main has returned 1 on a missing input, a backup from an
\* earlier failed run still in place.
MissingInputWitness ==
    /\ pc = "exited" /\ hist.input0 = NoFile /\ exit_status = 1
    /\ backup_file # NoFile

\* C9: main returns 0 exactly when compress_image returned and 1 when it
\* raised; a downscale result that is still over budget exits with 0.
ExitStatus ==
    (pc = "exited") =>
        /\ exit_status \in {0, 1}
        /\ (exit_status = 0) <=> (hist.called /\ hist.raisedAt = "none" /\ returned # NoKB)
        /\ (hist.raisedAt # "none") => exit_status = 1
        /\ (hist.stage # "none") => exit_status = 0

\* C9 witness: exit status 0 with the downscale result over budget.
ExitStatusWitness ==
    /\ pc = "exited" /\ exit_status = 0 /\ hist.stage = "downscale"
    /\ ~(final_size.num < 300 * 1024)

\* C10 (as claimed): every encode operates on an image without an alpha channel.
EncodesWithoutAlpha ==
    \A i \in 1..Len(hist.encodes) : hist.encodes[i].mode \notin {"RGBA", "LA"}

====
